---------------------------- MODULE Spec2Model ----------------------------
(***************************************************************************)
(* Model of the MRNASA map dashboard script (src/unnamed/part_000):        *)
(* the GIBS imagery layers and their date, the placed structures, the      *)
(* analyze request/response flow and the rendering of its results.         *)
(*                                                                         *)
(* Strings that the code takes apart (dates) are sequences of one-         *)
(* character strings; the empty string is the empty sequence.              *)
(***************************************************************************)
EXTENDS Integers, Sequences, FiniteSets, TLC

\* ------------------------------------------------------------------ bounds
\* Most structures ever placed (Leaflet stamps are never reused).
MaxPlaced == 2
\* Most scoring requests issued in a session.
MaxRequests == 2
\* Longest result array a response carries when its length is the server's choice.
MaxResults == 3
\* Most handler runs in a session.
MaxEvents == 11
\* Largest abstract map coordinate (lat and lng range over 1..MaxCoord).
MaxCoord == 2

\* ------------------------------------------------------------------- dates
Digits == <<"0", "1", "2", "3", "4", "5", "6", "7", "8", "9">>

Pad2(n) == <<Digits[(n \div 10) + 1], Digits[(n % 10) + 1]>>

Pad4(n) == <<Digits[(n \div 1000) + 1], Digits[((n \div 100) % 10) + 1]>> \o Pad2(n % 100)

IsLeap(y) == (y % 4 = 0 /\ y % 100 # 0) \/ y % 400 = 0

DaysInMonth(y, m) ==
    IF m = 2 THEN (IF IsLeap(y) THEN 28 + 1 ELSE 28)
    ELSE IF m \in {4, 6, 9, 11} THEN 30 ELSE 31

\* Date.prototype.setDate(getDate() - n): n days before the calendar date dt.
RECURSIVE MinusDays(_, _)
MinusDays(dt, n) ==
    IF n = 0 THEN dt
    ELSE IF dt.d > 1 THEN MinusDays([dt EXCEPT !.d = dt.d - 1], n - 1)
    ELSE IF dt.m > 1
         THEN MinusDays([y |-> dt.y, m |-> dt.m - 1, d |-> DaysInMonth(dt.y, dt.m - 1)], n - 1)
         ELSE MinusDays([y |-> dt.y - 1, m |-> 12, d |-> 31], n - 1)

\* date.toISOString().slice(0, 10): "YYYY-MM-DD".
ToISODate(dt) == Pad4(dt.y) \o <<"-">> \o Pad2(dt.m) \o <<"-">> \o Pad2(dt.d)

\* RemoveDashes without the g flag (str.replace('-', '')): only the first "-" removed.
RemoveDashesFirstOnly(str) ==
    IF \E i \in 1..Len(str) : str[i] = "-"
    THEN LET first == CHOOSE i \in 1..Len(str) : str[i] = "-" /\ \A j \in 1..(i - 1) : str[j] # "-"
         IN  SubSeq(str, 1, first - 1) \o SubSeq(str, first + 1, Len(str))
    ELSE str

\* str.replace(/-/g, ''): every "-" removed.
RemoveDashes(str) == SelectSeq(str, LAMBDA c : c # "-")

\* The clock readings (calendar date of "new Date()") a session may start at.
ClockReadings == {[y |-> 2024, m |-> 3, d |-> 2]}

\* The values a date input can be given by the user: a date, or "" (cleared).
InputDates == {ToISODate([y |-> 2024, m |-> 1, d |-> 1]), ToISODate([y |-> 2024, m |-> 1, d |-> 31])}

EmptyString == <<>>

\* getAvailableDate(daysBack = 3)
DefaultDaysBack == 3

GetAvailableDate(now, daysBack) == ToISODate(MinusDays(now, daysBack))

\* ------------------------------------------------------------ GIBS layers
GIBS_CONFIG ==
    [baseUrl |-> "https://gibs.earthdata.nasa.gov/wmts/epsg4326/best/",
     layers |->
       [temperature |-> [name |-> "MODIS_Terra_Land_Surface_Temp_Day",
                         tileMatrixSet |-> "EPSG4326_2km", maxZoom |-> 7,
                         attribution |-> "NASA GIBS MODIS LST", opacity |-> <<65, 100>>],
        nightLights |-> [name |-> "VIIRS_SNPP_DayNightBand_ENCC",
                         tileMatrixSet |-> "EPSG4326_500m", maxZoom |-> 8,
                         attribution |-> "NASA GIBS VIIRS Night Lights", opacity |-> <<80, 100>>],
        vegetation  |-> [name |-> "MODIS_Terra_NDVI_8Day",
                         tileMatrixSet |-> "EPSG4326_1km", maxZoom |-> 8,
                         attribution |-> "NASA GIBS MODIS NDVI", opacity |-> <<70, 100>>]]]

\* The imagery layers in the order the code builds them.
LayerOrder == <<"temperature", "nightLights", "vegetation">>

LayerKeys == {LayerOrder[i] : i \in 1..Len(LayerOrder)}

\* Position of a layer key in LayerOrder.
LayerIndex(k) == CHOOSE i \in 1..Len(LayerOrder) : LayerOrder[i] = k

\* DefaultOnLayers with every layer attached by the initialization.
AllLayersOn == LayerKeys

\* The layer the initialization attaches to the map (.addTo(map)).
DefaultOnLayers == {"temperature"}

\* createGIBSTileUrl: the URL template, as its pieces in order.
CreateGIBSTileUrl(layerConfig, date) ==
    <<GIBS_CONFIG.baseUrl, layerConfig.name, "/default/">> \o date
        \o <<"/", layerConfig.tileMatrixSet, "/{z}/{y}/{x}.png">>

\* L.tileLayer(createGIBSTileUrl(cfg, date), {maxZoom, attribution, opacity})
BuildTileLayer(k, date) ==
    [url |-> CreateGIBSTileUrl(GIBS_CONFIG.layers[k], date),
     maxZoom |-> GIBS_CONFIG.layers[k].maxZoom,
     attribution |-> GIBS_CONFIG.layers[k].attribution,
     opacity |-> GIBS_CONFIG.layers[k].opacity]

\* An entry of activeLayers that was never assigned.
Undefined == [url |-> <<>>]

\* The date piece of a tile layer's URL template (the 10 characters after "/default/").
DateOfLayer(layer) == SubSeq(layer.url, 4, 13)


\* --------------------------------------------------------------- the state
VARIABLES
    mapReady,         \* map: whether initMap has created the map
    currentDate,      \* currentDate ("" while null)
    activeLayers,     \* activeLayers: layer key -> tile layer (or Undefined)
    mapLayers,        \* the keys whose current layer object is attached to the map
    layerLog,         \* the last console line of initialize/updateGIBSLayers
    startInput,       \* value of the #start-date input
    endInput,         \* value of the #end-date input
    placingMode,      \* placingMode and the type its click handler captured
    drawnLayers,      \* drawnLayers: the placed markers, in eachLayer order
    lastId,           \* the last Leaflet stamp handed to a marker
    selectedPoints,   \* selectedPoints
    inFlight,         \* the analyzePoints calls suspended at their await
    loading,          \* whether #loading is displayed
    alertMsg,         \* the alert() shown by the last handler that ran
    analysisResults,  \* window.__analysisResults
    recommendations,  \* the rows of #recommendations
    heatMarkers,      \* the circle markers of heatLayer
    heatCheckbox,     \* #layer-heatmap checked
    modal,            \* #rec-modal: displayed or not, and the content of #rec-body
    requestCount,     \* history: scoring requests issued so far
    events,           \* history: handlers run so far
    renderedReq,      \* history: the request whose response was rendered last
    renderCount       \* history: successful renders so far

layerVars == <<currentDate, activeLayers, layerLog>>

placeVars == <<placingMode, drawnLayers, lastId>>

resultVars == <<analysisResults, recommendations, heatMarkers, heatCheckbox, renderedReq, renderCount>>

flightVars == <<inFlight, requestCount>>

vars == <<mapReady, currentDate, activeLayers, mapLayers, layerLog, startInput, endInput,
          placingMode, drawnLayers, lastId, selectedPoints, flightVars, loading, alertMsg,
          analysisResults, recommendations, heatMarkers, heatCheckbox, modal,
          requestCount, events, renderedReq, renderCount>>

\* One more handler runs, within the session length explored.
Handled == events < MaxEvents /\ events' = events + 1

NoAlert == "none"

NotPlacing == "off"

NoResults == <<>>

NoRequest == [points |-> <<>>, start |-> <<>>, end |-> <<>>, markers |-> <<>>]

ModalHidden == [open |-> FALSE, body |-> <<>>]

\* The state of the module-level declarations, before initMap runs.
Init ==
    /\ mapReady = FALSE
    /\ currentDate = EmptyString
    /\ activeLayers = [k \in LayerKeys |-> Undefined]
    /\ mapLayers = {}
    /\ layerLog = "none"
    /\ startInput = EmptyString
    /\ endInput = EmptyString
    /\ placingMode = NotPlacing
    /\ drawnLayers = <<>>
    /\ lastId = 0
    /\ selectedPoints = <<>>
    /\ inFlight = <<>>
    /\ loading = FALSE
    /\ alertMsg = NoAlert
    /\ analysisResults = NoResults
    /\ recommendations = <<>>
    /\ heatMarkers = <<>>
    /\ heatCheckbox = FALSE
    /\ modal = ModalHidden
    /\ requestCount = 0
    /\ events = 0
    /\ renderedReq = NoRequest
    /\ renderCount = 0

\* ------------------------------------------------------- layer operations
\* setDefaultDates: the end input gets today, the start input 30 days earlier.
DefaultRangeDays == 30

\* initializeGIBSLayers: one tile layer per descriptor, for date.
InitializeGIBSLayers(date) == [k \in LayerKeys |-> BuildTileLayer(k, date)]

\* initMap
InitMap(now) ==
    /\ Handled
    /\ ~mapReady
    /\ mapReady' = TRUE
    /\ currentDate' = GetAvailableDate(now, DefaultDaysBack)
    /\ activeLayers' = InitializeGIBSLayers(currentDate')
    /\ mapLayers' = DefaultOnLayers
    /\ layerLog' = "GIBS layers initialized"
    /\ endInput' = ToISODate(now)
    /\ startInput' = ToISODate(MinusDays(now, DefaultRangeDays))
    /\ alertMsg' = NoAlert
    /\ UNCHANGED <<placeVars, selectedPoints, flightVars, loading, resultVars, modal>>

NoFault == "none"

\* initializeGIBSLayers when the L.tileLayer call for failAt throws: the layers
\* before it in source order are built, failAt and the ones after it never are.
InitializeGIBSLayersUntil(date, failAt) ==
    [k \in LayerKeys |->
        IF LayerIndex(k) < LayerIndex(failAt) THEN BuildTileLayer(k, date) ELSE Undefined]

\* initMap when initializeGIBSLayers catches that throw: the rest of initMap
\* runs as usual, the listeners included.
InitMapFault(now, failAt) ==
    /\ Handled
    /\ ~mapReady
    /\ failAt \in LayerKeys
    /\ mapReady' = TRUE
    /\ currentDate' = GetAvailableDate(now, DefaultDaysBack)
    /\ activeLayers' = InitializeGIBSLayersUntil(currentDate', failAt)
    /\ mapLayers' = {k \in DefaultOnLayers : activeLayers'[k] # Undefined}
    /\ layerLog' = "Error initializing GIBS layers"
    /\ endInput' = ToISODate(now)
    /\ startInput' = ToISODate(MinusDays(now, DefaultRangeDays))
    /\ alertMsg' = NoAlert
    /\ UNCHANGED <<placeVars, selectedPoints, flightVars, loading, resultVars, modal>>

\* RebuildLayer with the new layer added to the map whether or not the old one was.
RebuildLayerAlwaysAttach(st, k, dateStr, failAt) ==
    IF st.thrown \/ st.layers[k] = Undefined THEN st
    ELSE IF failAt = k
         THEN [st EXCEPT !.map = st.map \ {k}, !.thrown = TRUE]
         ELSE [layers |-> [st.layers EXCEPT ![k] = BuildTileLayer(k, dateStr)],
               map |-> st.map \cup {k},
               thrown |-> FALSE]

\* One "if (activeLayers.k) { ... }" block of updateGIBSLayersWithDate, run on
\* st = [layers, map, thrown]; failAt is the layer whose L.tileLayer call throws.
RebuildLayer(st, k, dateStr, failAt) ==
    IF st.thrown \/ st.layers[k] = Undefined THEN st
    ELSE LET wasActive == k \in st.map
             removed == st.map \ {k}
         IN  IF failAt = k
             THEN [st EXCEPT !.map = removed, !.thrown = TRUE]
             ELSE [layers |-> [st.layers EXCEPT ![k] = BuildTileLayer(k, dateStr)],
                   map |-> IF wasActive THEN removed \cup {k} ELSE removed,
                   thrown |-> FALSE]

\* RebuildFrom that rebuilds only the layers attached to the map.
RebuildAttachedOnly(st, i, dateStr, failAt) ==
    [st EXCEPT !.layers = [k \in LayerKeys |->
                              IF k \in st.map /\ st.layers[k] # Undefined
                              THEN BuildTileLayer(k, dateStr) ELSE st.layers[k]]]

\* The three blocks in source order, inside the one try.
RECURSIVE RebuildFrom(_, _, _, _)
RebuildFrom(st, i, dateStr, failAt) ==
    IF i > Len(LayerOrder) THEN st
    ELSE RebuildFrom(RebuildLayer(st, LayerOrder[i], dateStr, failAt), i + 1, dateStr, failAt)

\* updateGIBSLayersWithDate(dateStr)
UpdateGIBSLayersWithDate(dateStr, failAt) ==
    LET st == RebuildFrom([layers |-> activeLayers, map |-> mapLayers, thrown |-> FALSE],
                          1, dateStr, failAt)
    IN  /\ currentDate' = dateStr
        /\ activeLayers' = st.layers
        /\ mapLayers' = st.map
        /\ layerLog' = IF st.thrown THEN "Error updating layers" ELSE "Layers updated"

\* updateGIBSLayersWithDate(dateStr) called before initMap has run: activeLayers
\* is still {} and map is never touched.
SetDateBeforeInit(dateStr) ==
    /\ Handled
    /\ ~mapReady
    /\ dateStr # currentDate
    /\ UpdateGIBSLayersWithDate(dateStr, NoFault)
    /\ alertMsg' = NoAlert
    /\ UNCHANGED <<mapReady, startInput, endInput, placeVars, selectedPoints, flightVars, loading,
                   resultVars, modal>>

\* The change handler of #end-date; failAt is the build that throws, if any.
EndDateChange(value, failAt) ==
    /\ Handled
    /\ mapReady
    /\ value # endInput
    /\ failAt \in {NoFault} \cup {k \in LayerKeys : activeLayers[k] # Undefined}
    /\ endInput' = value
    /\ IF value # EmptyString
       THEN UpdateGIBSLayersWithDate(value, failAt)
       ELSE failAt = NoFault /\ UNCHANGED <<layerVars, mapLayers>>
    /\ alertMsg' = NoAlert
    /\ UNCHANGED <<mapReady, startInput, placeVars, selectedPoints, flightVars, loading,
                   resultVars, modal>>

\* The user edits #start-date (no handler is attached to it).
StartDateChange(value) ==
    /\ Handled
    /\ mapReady
    /\ value # startInput
    /\ startInput' = value
    /\ UNCHANGED <<mapReady, layerVars, mapLayers, endInput, placeVars, selectedPoints,
                   flightVars, loading, alertMsg, resultVars, modal>>

\* LayerToggle that detaches every other imagery layer when it attaches one.
LayerToggleExclusive(layerKey, checked) ==
    /\ Handled
    /\ mapReady
    /\ IF activeLayers[layerKey] = Undefined
       THEN UNCHANGED mapLayers
       ELSE mapLayers' = IF checked THEN (mapLayers \ LayerKeys) \cup {layerKey}
                         ELSE mapLayers \ {layerKey}
    /\ alertMsg' = NoAlert
    /\ UNCHANGED <<mapReady, layerVars, startInput, endInput, placeVars, selectedPoints,
                   flightVars, loading, resultVars, modal>>

\* The change handler setupLayerToggle attaches for an imagery layer key.
LayerToggle(layerKey, checked) ==
    /\ Handled
    /\ mapReady
    /\ IF activeLayers[layerKey] = Undefined
       THEN UNCHANGED mapLayers
       ELSE mapLayers' = IF checked THEN mapLayers \cup {layerKey} ELSE mapLayers \ {layerKey}
    /\ alertMsg' = NoAlert
    /\ UNCHANGED <<mapReady, layerVars, startInput, endInput, placeVars, selectedPoints,
                   flightVars, loading, resultVars, modal>>

\* The change handler of #layer-heatmap (layerKey 'analysisHeat').
HeatToggle ==
    /\ Handled
    /\ mapReady
    /\ heatCheckbox' = ~heatCheckbox
    /\ mapLayers' = IF heatCheckbox' THEN mapLayers \cup {"analysisHeat"}
                    ELSE mapLayers \ {"analysisHeat"}
    /\ alertMsg' = NoAlert
    /\ UNCHANGED <<mapReady, layerVars, startInput, endInput, placeVars, selectedPoints,
                   flightVars, loading, analysisResults, recommendations, heatMarkers,
                   renderedReq, renderCount, modal>>

\* ------------------------------------------------------------- placements
\* The keys of the icons table of placeStructure: the structure types.
StructureTypes == {"house", "hospital", "school", "park", "water"}

\* The map positions a click or a drag can yield.
MapPoints == {[lat |-> c, lng |-> MaxCoord + c] : c \in 1..MaxCoord}

\* The Leaflet ids of the markers in a layer group, in eachLayer order.
MarkerIds(layers) == [i \in 1..Len(layers) |-> layers[i].id]

\* placeStructure(latlng, structureType): a draggable marker added to drawnLayers.
PlaceStructure(latlng, structureType) ==
    /\ drawnLayers' = Append(drawnLayers,
                             [id |-> lastId + 1, structureType |-> structureType, latlng |-> latlng])
    /\ lastId' = lastId + 1

\* The click handler of #place-structure; selected is the value of #structure-type.
PlaceBtnClick(selected) ==
    /\ Handled
    /\ mapReady
    /\ placingMode' = IF placingMode # NotPlacing THEN NotPlacing ELSE selected
    /\ alertMsg' = NoAlert
    /\ UNCHANGED <<mapReady, layerVars, mapLayers, startInput, endInput, drawnLayers, lastId,
                   selectedPoints, flightVars, loading, resultVars, modal>>

\* MapClick whose clickHandler leaves placement mode on.
MapClickKeepsMode(latlng) ==
    /\ mapReady
    /\ IF placingMode # NotPlacing
       THEN /\ lastId < MaxPlaced
            /\ Handled
            /\ PlaceStructure(latlng, placingMode)
            /\ UNCHANGED placingMode
            /\ alertMsg' = NoAlert
       ELSE UNCHANGED <<placeVars, alertMsg, events>>
    /\ UNCHANGED <<mapReady, layerVars, mapLayers, startInput, endInput, selectedPoints, flightVars,
                   loading, resultVars, modal>>

\* A click on the map: runs clickHandler when placement mode registered it.
MapClick(latlng) ==
    /\ mapReady
    /\ IF placingMode # NotPlacing
       THEN /\ lastId < MaxPlaced
            /\ Handled
            /\ PlaceStructure(latlng, placingMode)
            /\ placingMode' = NotPlacing
            /\ alertMsg' = NoAlert
       ELSE UNCHANGED <<placeVars, alertMsg, events>>
    /\ UNCHANGED <<mapReady, layerVars, mapLayers, startInput, endInput, selectedPoints, flightVars,
                   loading, resultVars, modal>>

\* DragMarker that puts a marker no longer in drawnLayers back at the drop position.
DragMarkerReinserts(layerId, latlng) ==
    /\ Handled
    /\ mapReady
    /\ drawnLayers' =
          IF layerId \in {drawnLayers[i].id : i \in 1..Len(drawnLayers)}
          THEN [i \in 1..Len(drawnLayers) |->
                   IF drawnLayers[i].id = layerId
                   THEN [drawnLayers[i] EXCEPT !.latlng = latlng] ELSE drawnLayers[i]]
          ELSE Append(drawnLayers, [id |-> layerId, structureType |-> "house", latlng |-> latlng])
    /\ alertMsg' = NoAlert
    /\ UNCHANGED <<mapReady, layerVars, mapLayers, startInput, endInput, placingMode, lastId,
                   selectedPoints, flightVars, loading, resultVars, modal>>

\* The marker with this id is dragged to latlng and its dragend handler
\* (updatePopup) runs; for a marker no longer in drawnLayers only the handler
\* runs, on the detached marker.
DragMarker(layerId, latlng) ==
    /\ Handled
    /\ mapReady
    /\ drawnLayers' = [i \in 1..Len(drawnLayers) |->
                          IF drawnLayers[i].id = layerId
                          THEN [drawnLayers[i] EXCEPT !.latlng = latlng] ELSE drawnLayers[i]]
    /\ alertMsg' = NoAlert
    /\ UNCHANGED <<mapReady, layerVars, mapLayers, startInput, endInput, placingMode, lastId,
                   selectedPoints, flightVars, loading, resultVars, modal>>

\* RemoveMarker that removes the newest marker when no marker has the id.
RemoveMarkerOrNewest(layerId) ==
    /\ Handled
    /\ mapReady
    /\ drawnLayers' =
          IF \E i \in 1..Len(drawnLayers) : drawnLayers[i].id = layerId
          THEN SelectSeq(drawnLayers, LAMBDA layer : layer.id # layerId)
          ELSE SubSeq(drawnLayers, 1, Len(drawnLayers) - 1)
    /\ alertMsg' = NoAlert
    /\ UNCHANGED <<mapReady, layerVars, mapLayers, startInput, endInput, placingMode, lastId,
                   selectedPoints, flightVars, loading, resultVars, modal>>

\* window.removeMarker(layerId)
RemoveMarker(layerId) ==
    /\ Handled
    /\ mapReady
    /\ drawnLayers' = SelectSeq(drawnLayers, LAMBDA layer : layer.id # layerId)
    /\ alertMsg' = NoAlert
    /\ UNCHANGED <<mapReady, layerVars, mapLayers, startInput, endInput, placingMode, lastId,
                   selectedPoints, flightVars, loading, resultVars, modal>>

\* window.clearAllMarkers()
ClearAllMarkers ==
    /\ Handled
    /\ mapReady
    /\ drawnLayers' = <<>>
    /\ selectedPoints' = <<>>
    /\ recommendations' = <<>>
    /\ heatMarkers' = <<>>
    /\ alertMsg' = NoAlert
    /\ UNCHANGED <<mapReady, layerVars, mapLayers, startInput, endInput, placingMode, lastId,
                   flightVars, loading, analysisResults, heatCheckbox, renderedReq, renderCount,
                   modal>>

\* ----------------------------------------------------------------- analyze
\* The covariates analyzePoints sends with every point (0.3, 2000, 1.0, 2.0;
\* fractions as <<numerator, denominator>>).
PlaceholderCovariates ==
    [ndvi |-> <<3, 10>>, population |-> 2000, road_km |-> <<10, 10>>, water_km |-> <<20, 10>>]

\* The drawnLayers.eachLayer loop of analyzePoints: one entry per marker.
CollectPoints(layers) ==
    [i \in 1..Len(layers) |->
        [marker |-> layers[i].id, lat |-> layers[i].latlng.lat, lon |-> layers[i].latlng.lng,
         type |-> layers[i].structureType]]

\* selectedPoints.map(p => ({lat, lon, type, ndvi, population, road_km, water_km}))
PayloadPoints(points) ==
    [i \in 1..Len(points) |->
        [lat |-> points[i].lat, lon |-> points[i].lon, type |-> points[i].type,
         ndvi |-> PlaceholderCovariates.ndvi, population |-> PlaceholderCovariates.population,
         road_km |-> PlaceholderCovariates.road_km, water_km |-> PlaceholderCovariates.water_km]]

\* The request analyzePoints sends; markers (the ids behind the points) is history.
BuildRequest(points, startValue, endValue) ==
    [points |-> PayloadPoints(points),
     start |-> IF startValue # EmptyString THEN RemoveDashes(startValue) ELSE EmptyString,
     end |-> IF endValue # EmptyString THEN RemoveDashes(endValue) ELSE EmptyString,
     markers |-> [i \in 1..Len(points) |-> points[i].marker]]

ValidationAlert == "Please place at least one structure on the map before analyzing."

FailedAlert == "Analysis failed"

NoResultsAlert == "No results returned from analysis."

\* AnalyzePoints without the early return for an empty selection.
AnalyzePointsNoCheck ==
    /\ Handled
    /\ mapReady
    /\ selectedPoints' = CollectPoints(drawnLayers)
    /\ requestCount < MaxRequests
    /\ loading' = TRUE
    /\ inFlight' = Append(inFlight, BuildRequest(selectedPoints', startInput, endInput))
    /\ requestCount' = requestCount + 1
    /\ alertMsg' = NoAlert
    /\ UNCHANGED <<mapReady, layerVars, mapLayers, startInput, endInput, placeVars, resultVars,
                   modal>>

\* analyzePoints, from the click on #score-selected up to its await fetch(...)
\* (or up to its return when nothing is placed; the finally block runs either way).
AnalyzePoints ==
    /\ Handled
    /\ mapReady
    /\ selectedPoints' = CollectPoints(drawnLayers)
    /\ IF Len(selectedPoints') = 0
       THEN /\ alertMsg' = ValidationAlert
            /\ loading' = FALSE
            /\ UNCHANGED flightVars
       ELSE /\ requestCount < MaxRequests
            /\ loading' = TRUE
            /\ inFlight' = Append(inFlight, BuildRequest(selectedPoints', startInput, endInput))
            /\ requestCount' = requestCount + 1
            /\ alertMsg' = NoAlert
    /\ UNCHANGED <<mapReady, layerVars, mapLayers, startInput, endInput, placeVars, resultVars,
                   modal>>

\* The suspended call j leaves inFlight.
Resume(j) == [i \in 1..(Len(inFlight) - 1) |-> IF i < j THEN inFlight[i] ELSE inFlight[i + 1]]

\* The ways a scoring call fails: fetch rejects, a non-2xx status, response.json()
\* rejects, or the body carries an error field.
FailureKinds == {"network", "status", "json", "error"}

\* ResponseFailure with the catch block emptying the result list.
ResponseFailureClearsList(j, kind) ==
    /\ Handled
    /\ j \in 1..Len(inFlight)
    /\ kind \in FailureKinds
    /\ inFlight' = Resume(j)
    /\ alertMsg' = FailedAlert
    /\ loading' = FALSE
    /\ recommendations' = <<>>
    /\ UNCHANGED <<mapReady, requestCount, layerVars, mapLayers, startInput, endInput, placeVars,
                   selectedPoints, analysisResults, heatMarkers, heatCheckbox, renderedReq,
                   renderCount, modal>>

\* ResponseFailure without the finally block: the loading indicator stays.
ResponseFailureKeepsLoading(j, kind) ==
    /\ Handled
    /\ j \in 1..Len(inFlight)
    /\ kind \in FailureKinds
    /\ inFlight' = Resume(j)
    /\ alertMsg' = FailedAlert
    /\ UNCHANGED <<mapReady, requestCount, layerVars, mapLayers, startInput, endInput, placeVars,
                   selectedPoints, loading, resultVars, modal>>

\* analyzePoints resumed by a failure: catch, then finally.
ResponseFailure(j, kind) ==
    /\ Handled
    /\ j \in 1..Len(inFlight)
    /\ kind \in FailureKinds
    /\ inFlight' = Resume(j)
    /\ alertMsg' = FailedAlert
    /\ loading' = FALSE
    /\ UNCHANGED <<mapReady, requestCount, layerVars, mapLayers, startInput, endInput, placeVars,
                   selectedPoints, resultVars, modal>>

\* analyzePoints resumed by a body with no results, or an empty array of them.
ResponseEmpty(j) ==
    /\ Handled
    /\ j \in 1..Len(inFlight)
    /\ inFlight' = Resume(j)
    /\ alertMsg' = NoResultsAlert
    /\ loading' = FALSE
    /\ UNCHANGED <<mapReady, requestCount, layerVars, mapLayers, startInput, endInput, placeVars,
                   selectedPoints, resultVars, modal>>

\* ------------------------------------------------------------------ render
\* ScoreColor with strict comparisons.
ScoreColorStrict(score) ==
    IF score > 70 THEN "#10b981" ELSE IF score > 50 THEN "#f59e0b" ELSE "#ef4444"

ScoreColor(score) ==
    IF score >= 70 THEN "#10b981" ELSE IF score >= 50 THEN "#f59e0b" ELSE "#ef4444"

\* point ? point.type : 'Unknown', for the 1-based index idx.
TypeAt(points, idx) == IF idx \in 1..Len(points) THEN points[idx].type ELSE "Unknown"

\* The rows displayResults appends, one per result; num is the "#idx+1" of the
\* title and the row's button opens detail num.
DisplayRows(results, points) ==
    [i \in 1..Len(results) |->
        [structureType |-> TypeAt(points, i), num |-> i,
         scoreColor |-> ScoreColor(results[i].score), score |-> results[i].score,
         lat |-> results[i].lat, lon |-> results[i].lon, mean_temp |-> results[i].mean_temp]]

\* DisplayResults that keeps an array already stored in window.__analysisResults.
DisplayResultsKeepsFirst(results) ==
    /\ recommendations' = DisplayRows(results, selectedPoints)
    /\ analysisResults' = IF analysisResults = NoResults THEN results ELSE analysisResults

\* displayResults(results)
DisplayResults(results) ==
    /\ recommendations' = DisplayRows(results, selectedPoints)
    /\ analysisResults' = results

\* The temperatures of the results that have one (temp != null).
DefinedTemps(results) ==
    {results[i].mean_temp[1] : i \in {n \in 1..Len(results) : results[n].mean_temp # <<>>}}

MinTemp(results) == CHOOSE t \in DefinedTemps(results) : \A u \in DefinedTemps(results) : t <= u

MaxTemp(results) == CHOOSE t \in DefinedTemps(results) : \A u \in DefinedTemps(results) : t >= u

\* Normalized without the "maxTemp > minTemp ?" guard: 0/0 (NaN, below nothing)
\* when max = min.
NormalizedNoGuard(temp, minTemp, maxTemp) == <<temp - minTemp, maxTemp - minTemp>>

\* normalized, as the fraction <<numerator, denominator>> (0.5 when max = min).
Normalized(temp, minTemp, maxTemp) ==
    IF maxTemp > minTemp THEN <<temp - minTemp, maxTemp - minTemp>> ELSE <<1, 2>>

\* normalized < num/100
Below(normalized, num) == normalized[1] * 100 < num * normalized[2]

\* The fill colours of the if/else chain, coldest first: bucket b is HeatPalette[b + 1].
HeatPalette == <<"#3b82f6", "#22c55e", "#eab308", "#f97316", "#ef4444">>

\* HeatColor with each boundary in the lower bucket (<= for <).
HeatColorBoundaryBelow(normalized) ==
    IF normalized[1] * 100 <= 25 * normalized[2] THEN "#3b82f6"
    ELSE IF normalized[1] * 100 <= 50 * normalized[2] THEN "#22c55e"
    ELSE IF normalized[1] * 100 <= 65 * normalized[2] THEN "#eab308"
    ELSE IF normalized[1] * 100 <= 80 * normalized[2] THEN "#f97316"
    ELSE "#ef4444"

\* The if/else chain of updateAnalysisHeatmap that picks the fill colour.
HeatColor(normalized) ==
    IF Below(normalized, 25) THEN "#3b82f6"
    ELSE IF Below(normalized, 50) THEN "#22c55e"
    ELSE IF Below(normalized, 65) THEN "#eab308"
    ELSE IF Below(normalized, 80) THEN "#f97316"
    ELSE "#ef4444"

\* HeatCircles without the "if (temp == null) return": a marker for every result.
RECURSIVE HeatCirclesNoSkip(_, _, _, _)
HeatCirclesNoSkip(results, i, minTemp, maxTemp) ==
    IF i > Len(results) THEN <<>>
    ELSE <<[lat |-> results[i].lat, lon |-> results[i].lon,
            fillColor |-> IF results[i].mean_temp = <<>> THEN "#3b82f6"
                          ELSE HeatColor(Normalized(results[i].mean_temp[1], minTemp, maxTemp)),
            temp |-> IF results[i].mean_temp = <<>> THEN 0 ELSE results[i].mean_temp[1],
            score |-> results[i].score]>>
         \o HeatCirclesNoSkip(results, i + 1, minTemp, maxTemp)

\* The circle markers the second forEach adds: one per result with a temperature.
RECURSIVE HeatCircles(_, _, _, _)
HeatCircles(results, i, minTemp, maxTemp) ==
    IF i > Len(results) THEN <<>>
    ELSE IF results[i].mean_temp = <<>> THEN HeatCircles(results, i + 1, minTemp, maxTemp)
    ELSE <<[lat |-> results[i].lat, lon |-> results[i].lon,
            fillColor |-> HeatColor(Normalized(results[i].mean_temp[1], minTemp, maxTemp)),
            temp |-> results[i].mean_temp[1], score |-> results[i].score]>>
         \o HeatCircles(results, i + 1, minTemp, maxTemp)

\* UpdateAnalysisHeatmap without the "!isFinite(minTemp)" return: with no
\* temperature at all the loop adds nothing, and the checkbox is still ticked.
UpdateAnalysisHeatmapNoFiniteCheck(results) ==
    IF Len(results) = 0
    THEN /\ heatMarkers' = <<>>
         /\ UNCHANGED <<heatCheckbox, mapLayers>>
    ELSE /\ heatMarkers' = IF DefinedTemps(results) = {} THEN <<>>
                           ELSE HeatCircles(results, 1, MinTemp(results), MaxTemp(results))
         /\ heatCheckbox' = TRUE
         /\ mapLayers' = IF heatCheckbox THEN mapLayers ELSE mapLayers \cup {"analysisHeat"}

\* UpdateAnalysisHeatmap without heatLayer.clearLayers(): new markers join the old ones.
UpdateAnalysisHeatmapKeepsOld(results) ==
    IF Len(results) = 0 \/ DefinedTemps(results) = {}
    THEN UNCHANGED <<heatMarkers, heatCheckbox, mapLayers>>
    ELSE /\ heatMarkers' = heatMarkers \o HeatCircles(results, 1, MinTemp(results), MaxTemp(results))
         /\ heatCheckbox' = TRUE
         /\ mapLayers' = IF heatCheckbox THEN mapLayers ELSE mapLayers \cup {"analysisHeat"}

\* updateAnalysisHeatmap(results)
UpdateAnalysisHeatmap(results) ==
    IF Len(results) = 0 \/ DefinedTemps(results) = {}
    THEN /\ heatMarkers' = <<>>
         /\ UNCHANGED <<heatCheckbox, mapLayers>>
    ELSE /\ heatMarkers' = HeatCircles(results, 1, MinTemp(results), MaxTemp(results))
         /\ heatCheckbox' = TRUE
         /\ mapLayers' = IF heatCheckbox THEN mapLayers ELSE mapLayers \cup {"analysisHeat"}

\* analyzePoints resumed by a body with a non-empty results array.
ResponseResults(j, results) ==
    /\ Handled
    /\ j \in 1..Len(inFlight)
    /\ Len(results) > 0
    /\ inFlight' = Resume(j)
    /\ DisplayResults(results)
    /\ UpdateAnalysisHeatmap(results)
    /\ renderedReq' = inFlight[j]
    /\ renderCount' = renderCount + 1
    /\ alertMsg' = NoAlert
    /\ loading' = FALSE
    /\ UNCHANGED <<mapReady, requestCount, layerVars, startInput, endInput, placeVars, selectedPoints, modal>>

\* The recommendation text of the detail view, by its first words.
Recommendation(score) ==
    IF score >= 70 THEN "Excellent location"
    ELSE IF score >= 50 THEN "Moderate suitability"
    ELSE "Low suitability"

\* window.showDetailedAnalysis(index - 1), reached through the button of row index.
\* shownAt is history: how many renders had happened when the detail was opened.
ShowDetailedAnalysis(index) ==
    /\ Handled
    /\ mapReady
    /\ index \in 1..Len(recommendations)
    /\ IF index \notin 1..Len(analysisResults)
       THEN UNCHANGED modal
       ELSE modal' = [open |-> TRUE,
                      body |-> [index |-> index, shownAt |-> renderCount,
                                structureType |-> TypeAt(selectedPoints, index),
                                score |-> analysisResults[index].score,
                                scoreColor |-> ScoreColor(analysisResults[index].score),
                                recommendation |-> Recommendation(analysisResults[index].score),
                                lat |-> analysisResults[index].lat,
                                lon |-> analysisResults[index].lon,
                                mean_temp |-> analysisResults[index].mean_temp]]
    /\ alertMsg' = NoAlert
    /\ UNCHANGED <<mapReady, layerVars, mapLayers, startInput, endInput, placeVars,
                   selectedPoints, flightVars, loading, resultVars>>

\* The click handlers of #rec-close and of the modal backdrop: display = 'none'.
CloseModal ==
    /\ Handled
    /\ mapReady
    /\ modal.open
    /\ modal' = [modal EXCEPT !.open = FALSE]
    /\ alertMsg' = NoAlert
    /\ UNCHANGED <<mapReady, layerVars, mapLayers, startInput, endInput, placeVars,
                   selectedPoints, flightVars, loading, resultVars>>

\* ------------------------------------------------------ what a server sends
\* Result arrays for a request: the first n points echoed with a score and an
\* optional temperature each.
EchoResults(points, n, scores, temps) ==
    {[i \in 1..n |-> [lat |-> points[i].lat, lon |-> points[i].lon, score |-> sc[i],
                      mean_temp |-> tp[i]]] : sc \in [1..n -> scores], tp \in [1..n -> temps]}

ResultsFor(points, scores, temps) ==
    UNION {EchoResults(points, n, scores, temps) : n \in 1..Len(points)}

\* ---------------------------------------------------------- specifications
\* The inputs the analysis flow is explored with.
FlowTypes == {"house", "hospital"}

FlowScores == {45, 80}

FlowTemps == {<<20>>}

FlowPoints == {[lat |-> 1, lng |-> MaxCoord + 1]}

\* The analysis flow: placing, removing, analyzing, responses in any order,
\* details; the date inputs stay at their defaults.
Next ==
    \/ \E now \in ClockReadings : InitMap(now)
    \/ \E t \in FlowTypes : PlaceBtnClick(t)
    \/ \E p \in FlowPoints : MapClick(p)
    \/ \E id \in 1..MaxPlaced : RemoveMarker(id)
    \/ ClearAllMarkers
    \/ AnalyzePoints
    \/ \E j \in 1..MaxRequests, kind \in FailureKinds : ResponseFailure(j, kind)
    \/ \E j \in 1..MaxRequests : ResponseEmpty(j)
    \/ \E j \in 1..Len(inFlight) :
          \E r \in ResultsFor(inFlight[j].points, FlowScores, FlowTemps) : ResponseResults(j, r)
    \/ \E i \in 1..MaxPlaced : ShowDetailedAnalysis(i)
    \/ CloseModal

Spec == Init /\ [][Next]_vars

\* The imagery layers alone: date changes and toggles, every build succeeding.
NextLayers ==
    \/ \E now \in ClockReadings : InitMap(now)
    \/ \E v \in InputDates \cup {EmptyString} : EndDateChange(v, NoFault)
    \/ \E v \in InputDates \cup {EmptyString} : StartDateChange(v)
    \/ \E k \in LayerKeys, checked \in BOOLEAN : LayerToggle(k, checked)
    \/ HeatToggle

SpecLayers == Init /\ [][NextLayers]_vars

\* The imagery layers when a tile layer construction may throw.
NextLayersFault ==
    \/ \E now \in ClockReadings : InitMap(now)
    \/ \E v \in InputDates \cup {EmptyString}, f \in LayerKeys \cup {NoFault} : EndDateChange(v, f)
    \/ \E k \in LayerKeys, checked \in BOOLEAN : LayerToggle(k, checked)

SpecLayersFault == Init /\ [][NextLayersFault]_vars

\* The scores the rendering is explored with: each threshold and each band.
RenderScores == {45, 50, 60, 70, 80}

\* Result entries with any of these scores, and one without a temperature.
RenderEntries ==
    {[lat |-> p.lat, lon |-> p.lng, score |-> sc, mean_temp |-> <<20>>] :
        p \in FlowPoints, sc \in RenderScores}
    \cup {[lat |-> p.lat, lon |-> p.lng, score |-> 60, mean_temp |-> <<>>] : p \in FlowPoints}

RenderResults == UNION {[1..n -> RenderEntries] : n \in 1..MaxResults}

\* The structure type the rendering is explored with.
RenderTypes == {"hospital"}

\* Rendering: structures are placed, analyzed once, and the response carries any
\* array of up to MaxResults entries (the server need not answer every point).
NextRender ==
    \/ \E now \in ClockReadings : InitMap(now)
    \/ \E t \in RenderTypes : PlaceBtnClick(t)
    \/ \E p \in FlowPoints : MapClick(p)
    \/ requestCount = 0 /\ AnalyzePoints
    \/ \E j \in 1..Len(inFlight) : \E r \in RenderResults : ResponseResults(j, r)
    \/ \E i \in 1..MaxResults : ShowDetailedAnalysis(i)
    \/ CloseModal

SpecRender == Init /\ [][NextRender]_vars

\* The temperatures the overlay is explored with: with 0 and 1000 both present,
\* a temperature t normalizes to t/1000, which is each boundary and the value
\* just under it.
HeatTemps == {0, 249, 250, 499, 500, 649, 650, 799, 800, 1000}

\* Result entries with any of these temperatures, and one without a temperature.
HeatEntries ==
    {[lat |-> p.lat, lon |-> p.lng, score |-> 60, mean_temp |-> tp] :
        p \in FlowPoints, tp \in {<<t>> : t \in HeatTemps} \cup {<<>>}}

HeatResults == UNION {[1..n -> HeatEntries] : n \in 1..MaxResults}

\* The temperature overlay: structures are placed, then one analysis is
\* answered by any array of up to MaxResults entries.
NextHeat ==
    \/ \E now \in ClockReadings : InitMap(now)
    \/ \E t \in RenderTypes : requestCount = 0 /\ PlaceBtnClick(t)
    \/ \E p \in FlowPoints : requestCount = 0 /\ MapClick(p)
    \/ requestCount = 0 /\ AnalyzePoints
    \/ \E j \in 1..Len(inFlight) : \E r \in HeatResults : ResponseResults(j, r)

SpecHeat == Init /\ [][NextHeat]_vars

\* The placement store: structures are placed, dragged and removed (a remove or
\* a drag may name a marker that is gone), and analyses are issued.
NextPlace ==
    \/ \E now \in ClockReadings : InitMap(now)
    \/ \E t \in FlowTypes : PlaceBtnClick(t)
    \/ \E p \in FlowPoints : MapClick(p)
    \/ \E id \in 1..MaxPlaced, p \in MapPoints : DragMarker(id, p)
    \/ \E id \in 1..MaxPlaced : RemoveMarker(id)
    \/ AnalyzePoints

SpecPlace == Init /\ [][NextPlace]_vars

\* The values the date inputs are edited to when requests are built.
RequestDates == {ToISODate([y |-> 2024, m |-> 1, d |-> 31]), EmptyString}

\* Building requests: structures are placed and dragged, the date inputs are
\* edited or cleared, and analyses are issued.
NextRequest ==
    \/ \E now \in ClockReadings : InitMap(now)
    \/ \E t \in FlowTypes : PlaceBtnClick(t)
    \/ \E p \in FlowPoints : MapClick(p)
    \/ \E id \in 1..MaxPlaced, p \in MapPoints : DragMarker(id, p)
    \/ \E v \in {EmptyString} : StartDateChange(v)
    \/ \E v \in RequestDates : EndDateChange(v, NoFault)
    \/ AnalyzePoints

SpecRequest == Init /\ [][NextRequest]_vars

\* The score the server answers with when the score does not matter.
EdgeScores == {60}

\* Calls that find nothing to act on: updateGIBSLayersWithDate before initMap,
\* toggles after an initialization that built only some layers, and removes
\* and drags naming markers that are not in drawnLayers, around one analysis.
NextEdge ==
    \/ \E now \in ClockReadings : InitMap(now)
    \/ \E now \in ClockReadings, f \in LayerKeys : InitMapFault(now, f)
    \/ \E v \in InputDates : SetDateBeforeInit(v)
    \/ \E k \in LayerKeys, checked \in BOOLEAN : LayerToggle(k, checked)
    \/ \E t \in RenderTypes : PlaceBtnClick(t)
    \/ \E p \in FlowPoints : MapClick(p)
    \/ \E id \in 1..MaxPlaced, p \in MapPoints : DragMarker(id, p)
    \/ \E id \in 1..MaxPlaced : RemoveMarker(id)
    \/ requestCount = 0 /\ AnalyzePoints
    \/ \E j \in 1..Len(inFlight) :
          \E r \in ResultsFor(inFlight[j].points, EdgeScores, FlowTemps) : ResponseResults(j, r)

SpecEdge == Init /\ [][NextEdge]_vars

\* The scoring call of some suspended analyzePoints settles and the call resumes.
Respond ==
    \E j \in 1..Len(inFlight) :
        \/ \E kind \in FailureKinds : ResponseFailure(j, kind)
        \/ ResponseEmpty(j)
        \/ \E r \in ResultsFor(inFlight[j].points, EdgeScores, FlowTemps) : ResponseResults(j, r)

\* Handler runs left for the user once one is kept for each suspended call.
RunsLeft == MaxEvents - events - Len(inFlight)

\* The analysis flow when every scoring call settles: the user places
\* structures, removes them and analyzes, and each suspended analyzePoints is
\* eventually resumed by its response.
NextLive ==
    \/ \E now \in ClockReadings : InitMap(now)
    \/ \E t \in RenderTypes : RunsLeft > 0 /\ PlaceBtnClick(t)
    \/ \E p \in FlowPoints : RunsLeft > 0 /\ MapClick(p)
    \/ \E id \in 1..MaxPlaced : RunsLeft > 0 /\ RemoveMarker(id)
    \/ RunsLeft > 1 /\ AnalyzePoints
    \/ Respond

SpecLive == Init /\ [][NextLive]_vars /\ WF_vars(Respond)

\* Clearing around analyses: structures leave the store only by clear, so
\* selectedPoints is empty exactly when no analysis has collected a structure
\* since the last clear (or since the start).
NextClear ==
    \/ \E now \in ClockReadings : InitMap(now)
    \/ \E t \in RenderTypes : PlaceBtnClick(t)
    \/ \E p \in FlowPoints : MapClick(p)
    \/ ClearAllMarkers
    \/ AnalyzePoints
    \/ Respond

SpecClear == Init /\ [][NextClear]_vars

\* ------------------------------------------------------------------ claims
\* A step of the #end-date change handler that calls updateGIBSLayersWithDate.
IsDateChange == mapReady /\ endInput' # endInput /\ endInput' # EmptyString

\* C1: every date change leaves each imagery layer attached to the map if and
\* only if it was attached before it, and every layer is then the tile layer
\* built for the new date (an attached layer is re-attached with its new source,
\* a detached one is rebuilt but not attached).
C1_DateChangeKeepsVisibility ==
    [][IsDateChange =>
          /\ \A k \in LayerKeys : (k \in mapLayers') <=> (k \in mapLayers)
          /\ \A k \in LayerKeys : activeLayers'[k] = BuildTileLayer(k, endInput')
          /\ currentDate' = endInput']_vars

\* C1 witness: the date was changed while nightLights was attached and
\* temperature was not, and both are as they were, built for the new date.
C1_Witness ==
    /\ mapReady
    /\ currentDate \in InputDates
    /\ "nightLights" \in mapLayers
    /\ "temperature" \notin mapLayers
    /\ \A k \in LayerKeys : DateOfLayer(activeLayers[k]) = currentDate

\* C2 (as claimed): when the build of one layer fails during a date change to d,
\* every other layer is still rebuilt for d and keeps its visibility.
C2_FailureIsolated ==
    [][\A v \in InputDates, f \in LayerKeys :
          EndDateChange(v, f) =>
              \A k \in LayerKeys \ {f} :
                  /\ activeLayers'[k] = BuildTileLayer(k, v)
                  /\ (k \in mapLayers') <=> (k \in mapLayers)]_vars

\* C3 (as claimed): whenever result rows or overlay markers are displayed, the
\* request they were produced by had exactly the structures now placed.
C3_NoStaleResults ==
    (recommendations # <<>> \/ heatMarkers # <<>>) =>
        renderedReq.markers = MarkerIds(drawnLayers)

\* C4: a failed scoring request changes neither the list rows, nor the overlay
\* markers, nor the result array - not when analyze issues it, not when its
\* failure is handled - and the failure handler hides the loading indicator.
C4_FailureKeepsRender ==
    [][(alertMsg' = FailedAlert \/ Len(inFlight') > Len(inFlight)) =>
          /\ recommendations' = recommendations
          /\ heatMarkers' = heatMarkers
          /\ analysisResults' = analysisResults
          /\ (alertMsg' = FailedAlert => ~loading')]_vars

\* C4 witness: a failure has just been reported over an earlier render.
C4_Witness ==
    /\ alertMsg = FailedAlert
    /\ recommendations # <<>>
    /\ heatMarkers # <<>>
    /\ analysisResults # NoResults
    /\ ~loading

\* C5: analyze with no structure placed issues no request, reports the
\* validation message, and leaves the result array, the rows and the markers
\* as they were.
C5_EmptyAnalyzeIsRejected ==
    [][(AnalyzePoints /\ drawnLayers = <<>>) =>
          /\ inFlight' = inFlight
          /\ requestCount' = requestCount
          /\ alertMsg' = ValidationAlert
          /\ analysisResults' = analysisResults
          /\ recommendations' = recommendations
          /\ heatMarkers' = heatMarkers]_vars

\* C5 witness: the validation message was shown while an earlier result set
\* is still rendered and nothing is in flight.
C5_Witness ==
    /\ alertMsg = ValidationAlert
    /\ drawnLayers = <<>>
    /\ recommendations # <<>>
    /\ analysisResults # NoResults
    /\ inFlight = <<>>

\* C6 (as claimed): at most one scoring request is in flight at any time.
C6_OneRequestInFlight == Len(inFlight) <= 1

\* The results that have a temperature, by index.
WithTemp(results) == {i \in 1..Len(results) : results[i].mean_temp # <<>>}

\* The index of the k-th result that has a temperature.
KthWithTemp(results, k) ==
    CHOOSE i \in WithTemp(results) : Cardinality({n \in WithTemp(results) : n < i}) = k - 1

\* The rendered array has one entry per point of the request it answers.
RenderedOneToOne ==
    /\ recommendations # <<>>
    /\ Len(analysisResults) = Len(renderedReq.points)

\* C7 (as claimed): rendering R with |R| = |P| gives exactly |R| list rows and
\* exactly |R| overlay markers.
C7_MarkerPerResult ==
    RenderedOneToOne =>
        /\ Len(recommendations) = Len(analysisResults)
        /\ Len(heatMarkers) = Len(analysisResults)

\* C7 (amended): rendering R with |R| = |P| gives exactly |R| list rows, row i
\* showing R[i], and one overlay marker for each result that has a temperature,
\* in result order, at that result's position.
C7_MarkerPerTemperature ==
    RenderedOneToOne =>
        /\ Len(recommendations) = Len(analysisResults)
        /\ \A i \in 1..Len(recommendations) :
              /\ recommendations[i].num = i
              /\ recommendations[i].score = analysisResults[i].score
              /\ recommendations[i].lat = analysisResults[i].lat
              /\ recommendations[i].lon = analysisResults[i].lon
        /\ Len(heatMarkers) = Cardinality(WithTemp(analysisResults))
        /\ \A k \in 1..Len(heatMarkers) :
              LET r == analysisResults[KthWithTemp(analysisResults, k)]
              IN  /\ heatMarkers[k].lat = r.lat
                  /\ heatMarkers[k].lon = r.lon
                  /\ heatMarkers[k].score = r.score
                  /\ <<heatMarkers[k].temp>> = r.mean_temp

\* C7 witness: two points, two results, the first without a temperature: two
\* rows and the one marker of the second result.
C7_Witness ==
    /\ RenderedOneToOne
    /\ Len(recommendations) = 2
    /\ analysisResults[1].mean_temp = <<>>
    /\ analysisResults[2].mean_temp # <<>>
    /\ Len(heatMarkers) = 1
    /\ heatMarkers[1].score = analysisResults[2].score

\* C8 (as claimed): row i shows result i and is labelled with the type of the
\* i-th point of the request whose response was rendered.
C8_RowsLabelledByRequest ==
    recommendations # <<>> =>
        \A i \in 1..Len(recommendations) :
            /\ recommendations[i].num = i
            /\ recommendations[i].score = analysisResults[i].score
            /\ i <= Len(renderedReq.points) =>
                  recommendations[i].structureType = renderedReq.points[i].type

\* A step that opens the detail view or replaces its content.
IsDetailOpened == modal' # modal /\ modal'.open

\* C9: opening detail i shows entry i of the current result array, which is the
\* array of the most recent render: the entry row i was rendered from.
C9_DetailShowsCurrent ==
    [][IsDetailOpened =>
          LET i == modal'.body.index
          IN  /\ i \in 1..Len(recommendations)
              /\ i \in 1..Len(analysisResults)
              /\ modal'.body.score = analysisResults[i].score
              /\ modal'.body.mean_temp = analysisResults[i].mean_temp
              /\ modal'.body.lat = analysisResults[i].lat
              /\ modal'.body.lon = analysisResults[i].lon
              /\ modal'.body.score = recommendations[i].score
              /\ modal'.body.mean_temp = recommendations[i].mean_temp]_vars

\* C9 witness: a detail opened after the second render shows an entry of the
\* array of that render.
C9_Witness ==
    /\ modal.open
    /\ renderCount = 2
    /\ modal.body.shownAt = 2
    /\ modal.body.index \in 1..Len(recommendations)
    /\ modal.body.score = recommendations[modal.body.index].score
    /\ modal.body.score = analysisResults[modal.body.index].score

\* The colour the claim gives a score: good from 70, moderate from 50, else poor.
ColourOfScore(score) ==
    CASE score >= 70 -> "#10b981"
      [] score >= 50 /\ score < 70 -> "#f59e0b"
      [] score < 50 -> "#ef4444"

\* C10: the score colour of every list row and of the detail view is good for
\* score >= 70, moderate for 50 <= score < 70 and poor below 50, whatever the
\* temperature; rows with scores 80, 45, 60 are good, poor, moderate.
C10_ScoreColourThresholds ==
    /\ \A i \in 1..Len(recommendations) :
          /\ recommendations[i].scoreColor = ColourOfScore(recommendations[i].score)
          /\ recommendations[i].score = analysisResults[i].score
    /\ modal.open =>
          /\ modal.body.scoreColor = ColourOfScore(modal.body.score)
          /\ modal.body.score = analysisResults[modal.body.index].score

\* C10 witness: rows with scores 80, 45, 60 in colours good, poor, moderate,
\* and the detail of the second open.
C10_Witness ==
    /\ Len(recommendations) = 3
    /\ [i \in 1..3 |-> recommendations[i].score] = <<80, 45, 60>>
    /\ [i \in 1..3 |-> recommendations[i].scoreColor] = <<"#10b981", "#ef4444", "#f59e0b">>
    /\ modal.open
    /\ modal.body.index = 2
    /\ modal.body.scoreColor = "#ef4444"

\* The bucket (0 coldest .. 4 hottest) a fill colour stands for.
BucketOfColour(colour) == (CHOOSE b \in 1..Len(HeatPalette) : HeatPalette[b] = colour) - 1

\* The bucket the claim gives the normalized value num/den (den > 0):
\* boundaries 1/4, 1/2, 13/20, 4/5, each belonging to the upper bucket.
BucketOfNormalized(num, den) ==
    CASE 4 * num < den -> 0
      [] 4 * num >= den /\ 2 * num < den -> 1
      [] 2 * num >= den /\ 20 * num < 13 * den -> 2
      [] 20 * num >= 13 * den /\ 5 * num < 4 * den -> 3
      [] 5 * num >= 4 * den -> 4

\* The claim's table: normalized value in thousandths -> bucket.
BucketTable ==
    (0 :> 0) @@ (249 :> 0) @@ (250 :> 1) @@ (499 :> 1) @@ (500 :> 2) @@ (649 :> 2)
        @@ (650 :> 3) @@ (799 :> 3) @@ (800 :> 4) @@ (1000 :> 4)

\* The temperatures of the overlay markers.
MarkerTemps == {heatMarkers[k].temp : k \in 1..Len(heatMarkers)}

\* C11: every overlay marker's colour is the bucket of its normalized
\* temperature n = (t - min)/(max - min): 0 for n < 0.25, 1 for 0.25 <= n < 0.5,
\* 2 for 0.5 <= n < 0.65, 3 for 0.65 <= n < 0.8, 4 for n >= 0.8; in particular
\* 0.0, 0.249, 0.25, 0.499, 0.5, 0.649, 0.65, 0.799, 0.8, 1.0 give
\* 0, 0, 1, 1, 2, 2, 3, 3, 4, 4.
C11_BucketThresholds ==
    \A lo \in MarkerTemps, hi \in MarkerTemps :
        ((\A t \in MarkerTemps : lo <= t /\ t <= hi) /\ lo < hi) =>
            \A k \in 1..Len(heatMarkers) :
                /\ BucketOfColour(heatMarkers[k].fillColor)
                      = BucketOfNormalized(heatMarkers[k].temp - lo, hi - lo)
                /\ (lo = 0 /\ hi = 1000) =>
                      BucketOfColour(heatMarkers[k].fillColor) = BucketTable[heatMarkers[k].temp]

\* C11 witness: markers for the normalized values 0.0, 0.65 and 1.0 in the
\* colours of buckets 0, 3 and 4.
C11_Witness ==
    /\ Len(heatMarkers) = 3
    /\ [k \in 1..3 |-> heatMarkers[k].temp] = <<0, 650, 1000>>
    /\ [k \in 1..3 |-> BucketOfColour(heatMarkers[k].fillColor)] = <<0, 3, 4>>

\* A step that renders a result array whose defined temperatures are all equal.
IsUniformRender ==
    /\ renderCount' = renderCount + 1
    /\ Cardinality(DefinedTemps(analysisResults')) = 1

\* C12: rendering results whose defined temperatures all share one value raises
\* no error (the render completes: rows, one marker per result with a
\* temperature, no failure alert) and gives every marker the medium bucket 2.
C12_UniformIsMedium ==
    [][IsUniformRender =>
          /\ alertMsg' = NoAlert
          /\ Len(recommendations') = Len(analysisResults')
          /\ Len(heatMarkers') = Cardinality(WithTemp(analysisResults'))
          /\ \A k \in 1..Len(heatMarkers') :
                BucketOfColour(heatMarkers'[k].fillColor) = 2]_vars

\* C12 witness: three results, two with the same temperature and one with
\* none: two markers, both medium.
C12_Witness ==
    /\ Len(analysisResults) = 3
    /\ Len(heatMarkers) = 2
    /\ heatMarkers[1].temp = heatMarkers[2].temp
    /\ \A k \in 1..2 : heatMarkers[k].fillColor = HeatPalette[3]
    /\ alertMsg = NoAlert

\* The ids of the structures now in the placement store.
PlacedIds == {drawnLayers[i].id : i \in 1..Len(drawnLayers)}

\* The ids of the structures that were placed and are no longer in the store.
RemovedIds == (1..lastId) \ PlacedIds

\* The request the step has just issued, when it issued one.
IssuedRequest == inFlight'[Len(inFlight')]

\* C13: remove(id) takes id out of the structure list and keeps the others in
\* order; an id that is gone never returns to the list, is in no request issued
\* afterwards, and a move or remove naming it raises no error and changes
\* neither the list, nor the collected points, nor the requests in flight, nor
\* the results.
C13_RemovedStaysOut ==
    [][/\ \A id \in PlacedIds :
              RemoveMarker(id) =>
                  /\ id \notin PlacedIds'
                  /\ PlacedIds' = PlacedIds \ {id}
                  /\ \A i, j \in 1..Len(drawnLayers') :
                        i < j => drawnLayers'[i].id < drawnLayers'[j].id
       /\ \A id \in RemovedIds :
              /\ id \notin PlacedIds'
              /\ Len(inFlight') > Len(inFlight) =>
                    /\ \A i \in 1..Len(IssuedRequest.markers) : IssuedRequest.markers[i] # id
                    /\ Len(IssuedRequest.points) = Cardinality(PlacedIds)
              /\ (RemoveMarker(id) \/ \E p \in MapPoints : DragMarker(id, p)) =>
                    /\ alertMsg' = NoAlert
                    /\ UNCHANGED <<drawnLayers, selectedPoints, inFlight, loading, resultVars,
                                   modal, layerVars, mapLayers>>]_vars

\* C13 witness: of two structures the first was removed, and an analysis
\* issued afterwards carries only the second.
C13_Witness ==
    /\ lastId = 2
    /\ PlacedIds = {2}
    /\ inFlight # <<>>
    /\ inFlight[Len(inFlight)].markers = <<2>>
    /\ Len(inFlight[Len(inFlight)].points) = 1
    /\ [i \in 1..Len(selectedPoints) |-> selectedPoints[i].marker] = <<2>>

\* C14 (as claimed): analyze invoked while the start date or the end date is
\* missing is reported to the user, issues no scoring request, and changes
\* neither the requests in flight, nor the loading indicator, nor the results.
C14_MissingDateIsRejected ==
    [][(AnalyzePoints /\ (startInput = EmptyString \/ endInput = EmptyString)) =>
          /\ alertMsg' # NoAlert
          /\ inFlight' = inFlight
          /\ requestCount' = requestCount
          /\ loading' = loading
          /\ UNCHANGED resultVars]_vars

\* "YYYY-MM-DD" as "YYYYMMDD".
Compact(date) == <<date[1], date[2], date[3], date[4], date[6], date[7], date[9], date[10]>>

\* C15: the request analyze issues has exactly one point per structure placed
\* at that moment, in insertion order (ascending ids), point i carrying the
\* present position and the type of structure i; start and end are the values
\* of the date inputs with the separators removed (YYYYMMDD).
C15_PayloadFromPlacements ==
    [][Len(inFlight') > Len(inFlight) =>
          /\ Len(IssuedRequest.points) = Len(drawnLayers)
          /\ IssuedRequest.markers = [i \in 1..Len(drawnLayers) |-> drawnLayers[i].id]
          /\ \A i, j \in 1..Len(IssuedRequest.markers) :
                i < j => IssuedRequest.markers[i] < IssuedRequest.markers[j]
          /\ \A i \in 1..Len(drawnLayers) :
                /\ IssuedRequest.points[i].lat = drawnLayers[i].latlng.lat
                /\ IssuedRequest.points[i].lon = drawnLayers[i].latlng.lng
                /\ IssuedRequest.points[i].type = drawnLayers[i].structureType
          /\ startInput # EmptyString =>
                /\ IssuedRequest.start = Compact(startInput)
                /\ Len(IssuedRequest.start) = 8
          /\ endInput # EmptyString =>
                /\ IssuedRequest.end = Compact(endInput)
                /\ Len(IssuedRequest.end) = 8]_vars

\* C15 witness: a request for a house and a hospital, the hospital dragged
\* away from where it was placed, with the default start date and an end date
\* the user picked.
C15_Witness ==
    /\ inFlight # <<>>
    /\ Len(inFlight[1].points) = 2
    /\ inFlight[1].points[1].type = "house"
    /\ inFlight[1].points[2].type = "hospital"
    /\ inFlight[1].points[1].lat = 1
    /\ inFlight[1].points[2].lat = 2
    /\ inFlight[1].points[2].lon = MaxCoord + 2
    /\ inFlight[1].start = <<"2", "0", "2", "4", "0", "2", "0", "1">>
    /\ inFlight[1].end = <<"2", "0", "2", "4", "0", "1", "3", "1">>

\* The dates getAvailableDate can give initMap.
DefaultAvailableDates == {GetAvailableDate(now, DefaultDaysBack) : now \in ClockReadings}

\* C16: in every state after initialize, every registered layer's stored tile
\* source is the one of its descriptor for the current date, where the current
\* date is the default available date after initialize, becomes d on setDate(d)
\* and changes on no other step.
C16_SourcesBuiltForCurrentDate ==
    [][mapReady' =>
          /\ \A k \in LayerKeys :
                /\ activeLayers'[k] # Undefined
                /\ DateOfLayer(activeLayers'[k]) = currentDate'
                /\ activeLayers'[k].url[2] = GIBS_CONFIG.layers[k].name
                /\ activeLayers'[k].url[15] = GIBS_CONFIG.layers[k].tileMatrixSet
          /\ currentDate' = IF ~mapReady THEN CHOOSE d \in DefaultAvailableDates : TRUE
                            ELSE IF IsDateChange THEN endInput'
                            ELSE currentDate]_vars

\* C16 witness: the date was set to 2024-01-31, the end date input was then
\* cleared and vegetation switched on: all three sources are for 2024-01-31.
C16_Witness ==
    /\ mapReady
    /\ endInput = EmptyString
    /\ currentDate = ToISODate([y |-> 2024, m |-> 1, d |-> 31])
    /\ "vegetation" \in mapLayers
    /\ \A k \in LayerKeys : DateOfLayer(activeLayers[k]) = ToISODate([y |-> 2024, m |-> 1, d |-> 31])

\* A step that initializes the map and its layers.
IsInitialize == ~mapReady /\ mapReady'

\* The default available date on 2024-03-02: three days earlier.
DefaultDateOnMarch2 == <<"2", "0", "2", "4", "-", "0", "2", "-", "2", "8">>

\* C17: initialize builds the layer of each of the three descriptors, all for
\* the default available date, and leaves temperature attached to the map and
\* nightLights and vegetation not attached.
C17_InitializeBuildsAll ==
    [][IsInitialize =>
          /\ currentDate' = DefaultDateOnMarch2
          /\ \A k \in {"temperature", "nightLights", "vegetation"} :
                /\ activeLayers'[k] # Undefined
                /\ activeLayers'[k].url[2] = GIBS_CONFIG.layers[k].name
                /\ DateOfLayer(activeLayers'[k]) = currentDate'
          /\ "temperature" \in mapLayers'
          /\ "nightLights" \notin mapLayers'
          /\ "vegetation" \notin mapLayers']_vars

\* C17 witness: the state initialize leaves behind.
C17_Witness ==
    /\ mapReady
    /\ events = 1
    /\ layerLog = "GIBS layers initialized"
    /\ mapLayers = {"temperature"}
    /\ \A k \in LayerKeys : DateOfLayer(activeLayers[k]) = DefaultDateOnMarch2

\* C18: toggle(key, v) on a registered layer leaves that layer attached to the
\* map exactly if v, with the tile source it had (no rebuild), and changes
\* neither the current date, nor any tile source, nor whether any other layer
\* is attached.
C18_ToggleOnlyAttaches ==
    [][\A k \in LayerKeys, v \in BOOLEAN :
          (LayerToggle(k, v) /\ activeLayers[k] # Undefined) =>
              /\ (k \in mapLayers') <=> v
              /\ activeLayers' = activeLayers
              /\ currentDate' = currentDate
              /\ mapLayers' \ {k} = mapLayers \ {k}]_vars

\* C18 witness: nightLights and vegetation were switched on and temperature
\* off after a date change: each still has the source of that date.
C18_Witness ==
    /\ mapReady
    /\ mapLayers = {"nightLights", "vegetation"}
    /\ layerLog = "Layers updated"
    /\ currentDate = ToISODate([y |-> 2024, m |-> 1, d |-> 1])
    /\ \A k \in LayerKeys : activeLayers[k] = BuildTileLayer(k, currentDate)

\* C19 (as claimed): setDate called before the layers have been initialized
\* ends in an error; it does not complete as a successful update.
C19_SetDateBeforeInitFails ==
    [][\A v \in InputDates : SetDateBeforeInit(v) => layerLog' # "Layers updated"]_vars

\* The layer keys for which initialization built no layer.
MissingKeys == {k \in LayerKeys : activeLayers[k] = Undefined}

\* What a silently ignored call leaves alone: layer visibility, tile sources,
\* date, placements, collected points, requests and results; and it alerts
\* nothing.
IgnoredSilently ==
    /\ alertMsg' = NoAlert
    /\ UNCHANGED <<mapLayers, layerVars, drawnLayers, lastId, placingMode, selectedPoints,
                   inFlight, loading, resultVars, modal>>

\* C20: a toggle for a key with no registered layer, and a move or remove for
\* an id that is not in the placement store (never placed, or removed), are
\* silently ignored.
C20_MissingTargetsIgnored ==
    [][/\ \A k \in MissingKeys, v \in BOOLEAN : LayerToggle(k, v) => IgnoredSilently
       /\ \A id \in (1..MaxPlaced) \ PlacedIds :
              (RemoveMarker(id) \/ \E p \in MapPoints : DragMarker(id, p)) => IgnoredSilently]_vars

\* C20 witness: initialization built temperature only, the first of two
\* structures was removed, and the results of an analysis are displayed.
C20_Witness ==
    /\ mapReady
    /\ MissingKeys = {"nightLights", "vegetation"}
    /\ mapLayers = {"temperature", "analysisHeat"}
    /\ lastId = 2
    /\ PlacedIds = {2}
    /\ recommendations # <<>>
    /\ heatMarkers # <<>>

\* A step that renders a result array.
IsRender == renderCount' = renderCount + 1

\* C21: after a successful render of R the overlay holds exactly the markers
\* derived from R, one for each result of R that has a temperature, in order;
\* whatever markers an earlier render left are gone.
C21_OverlayReplacedWhole ==
    [][IsRender =>
          /\ Len(heatMarkers') = Cardinality(WithTemp(analysisResults'))
          /\ \A k \in 1..Len(heatMarkers') :
                LET r == analysisResults'[KthWithTemp(analysisResults', k)]
                IN  /\ heatMarkers'[k].lat = r.lat
                    /\ heatMarkers'[k].lon = r.lon
                    /\ heatMarkers'[k].score = r.score
                    /\ <<heatMarkers'[k].temp>> = r.mean_temp]_vars

\* C21 witness: after the second render, of a single result, the overlay holds
\* that result's marker alone although two structures had been analyzed.
C21_Witness ==
    /\ renderCount = 2
    /\ lastId = 2
    /\ Len(analysisResults) = 1
    /\ Len(heatMarkers) = 1
    /\ heatMarkers[1].score = analysisResults[1].score

\* C22: rendering a result array in which no result has a temperature raises
\* no error and skips the heatmap: the overlay gets no marker and is not
\* switched on, while the list gets one row per result, in result order.
C22_NoTemperatureSkipsHeatmap ==
    [][(IsRender /\ WithTemp(analysisResults') = {}) =>
          /\ alertMsg' = NoAlert
          /\ ~loading'
          /\ heatMarkers' = <<>>
          /\ heatCheckbox' = heatCheckbox
          /\ mapLayers' = mapLayers
          /\ Len(recommendations') = Len(analysisResults')
          /\ \A i \in 1..Len(recommendations') :
                /\ recommendations'[i].num = i
                /\ recommendations'[i].mean_temp = <<>>]_vars

\* C22 witness: two results without a temperature are displayed as two rows,
\* with no overlay marker and the overlay checkbox still unticked.
C22_Witness ==
    /\ renderCount = 1
    /\ Len(analysisResults) = 2
    /\ WithTemp(analysisResults) = {}
    /\ Len(recommendations) = 2
    /\ heatMarkers = <<>>
    /\ ~heatCheckbox
    /\ "analysisHeat" \notin mapLayers

\* A step in which a suspended analysis is resumed by its response.
IsResponseHandled == Len(inFlight') < Len(inFlight)

\* C23: when every scoring call settles, analyses in flight all eventually
\* leave Requesting; the step that handles a response ends in a render or in a
\* reported failure and hides the loading indicator, which is shown again only
\* by an analyze that issues a request.
C23_RequestingIsLeft ==
    /\ (inFlight # <<>>) ~> (inFlight = <<>> /\ ~loading)
    /\ [][IsResponseHandled =>
             /\ Len(inFlight') = Len(inFlight) - 1
             /\ ~loading'
             /\ IsRender \/ alertMsg' \in {FailedAlert, NoResultsAlert}]_vars
    /\ [][(~loading /\ loading') => Len(inFlight') = Len(inFlight) + 1]_vars

\* C23 witness: two analyses entered Requesting and both have left it, one by
\* a render and the other by a failure; the loading indicator is hidden.
C23_Witness ==
    /\ requestCount = 2
    /\ inFlight = <<>>
    /\ renderCount = 1
    /\ alertMsg = FailedAlert
    /\ recommendations # <<>>
    /\ ~loading

\* C24: the structure list grows only in a step taken in placement mode, by
\* exactly one structure of the type the mode was activated with, and that
\* step leaves the mode; the mode is entered only from outside it, its type
\* does not change while it lasts, and leaving it without a map click
\* (cancel) creates nothing.
C24_PlacementOnlyInMode ==
    [][/\ Len(drawnLayers') > Len(drawnLayers) =>
              /\ placingMode # NotPlacing
              /\ placingMode' = NotPlacing
              /\ Len(drawnLayers') = Len(drawnLayers) + 1
              /\ SubSeq(drawnLayers', 1, Len(drawnLayers)) = drawnLayers
              /\ drawnLayers'[Len(drawnLayers')].structureType = placingMode
              /\ drawnLayers'[Len(drawnLayers')].id \notin 1..lastId
       /\ (placingMode # NotPlacing /\ placingMode' # placingMode) =>
              placingMode' = NotPlacing
       /\ \A t \in FlowTypes :
              (PlaceBtnClick(t) /\ placingMode # NotPlacing) =>
                  /\ placingMode' = NotPlacing
                  /\ drawnLayers' = drawnLayers
       /\ \A t \in FlowTypes :
              (PlaceBtnClick(t) /\ placingMode = NotPlacing) =>
                  /\ placingMode' = t
                  /\ drawnLayers' = drawnLayers]_vars

\* C24 witness: after five handler runs the list holds one house, created by
\* the one map click made in placement mode, and the mode is off again.
C24_Witness ==
    /\ mapReady
    /\ events = 5
    /\ placingMode = NotPlacing
    /\ Len(drawnLayers) = 1
    /\ drawnLayers[1].structureType = "house"
    /\ lastId = 1

\* C25 (as claimed): the structure type shown when detail i is opened is the
\* type in the label of the displayed row i.
C25_DetailTypeMatchesRow ==
    [][IsDetailOpened =>
          modal'.body.structureType
              = recommendations[modal'.body.index].structureType]_vars

\* C26 (as claimed): clear empties the placement store, the list rows and the
\* overlay markers; and while no new analyze has collected a structure since
\* (selectedPoints, which clear empties, is still empty), empty rows and an
\* empty overlay stay empty, whatever request was in flight.
C26_ClearedStaysEmpty ==
    [][/\ ClearAllMarkers =>
              /\ drawnLayers' = <<>>
              /\ recommendations' = <<>>
              /\ heatMarkers' = <<>>
       /\ (selectedPoints = <<>> /\ selectedPoints' = <<>>
              /\ recommendations = <<>> /\ heatMarkers = <<>>) =>
              /\ recommendations' = <<>>
              /\ heatMarkers' = <<>>]_vars

\* C27 (as claimed): the loading indicator is shown in every state in which a
\* scoring request is in flight, and is hidden only when none is in flight.
C27_LoadingTracksInFlight ==
    loading <=> inFlight # <<>>

=============================================================================
